---- MODULE Spec2Model ----
(***************************************************************************)
(* A state-machine model of the resource/image backend in back/api:        *)
(* the Resource and ResourceImage tables (models.py), the serializers'     *)
(* validation and tag normalisation (serializers.py), the HTTP handlers    *)
(* (views.py) and the media storage the file fields write to.              *)
(*                                                                         *)
(* Text is a sequence of characters (<<"a", ",", " ">>), so that split /   *)
(* strip / join are computed as Python computes them.  A character is a    *)
(* one-character string; a character that has no TLA+ notation is the      *)
(* string of its code point ("U+00A0").                                    *)
(***************************************************************************)
EXTENDS Integers, Sequences, FiniteSets, TLC

VARIABLES
    resources,    \* the Resource table: id -> row
    images,       \* the ResourceImage table: id -> row
    next_resource_id, \* the AUTOINCREMENT sequence of the Resource table
    next_image_id,    \* the AUTOINCREMENT sequence of the ResourceImage table
    blobs,        \* the names of the files held by the media storage
    now,          \* the clock read by auto_now / auto_now_add
    in_flight,    \* the requests that have loaded their object and not yet saved
    resp,         \* the request answered last, and its response
    written_tags, \* history: id -> the tags text of the last write that supplied one
    cascaded,     \* history: ids of the images a resource owned when it was deleted
    patched,      \* history: the PATCH requests answered 200 under SpecConc, with their times
    received      \* the number of requests received under SpecConc

vars == <<resources, images, next_resource_id, next_image_id, blobs, now,
          in_flight, resp, written_tags, cascaded, patched, received>>

(***************************************************************************)
(* Bounds of the model.                                                    *)
(***************************************************************************)
\* requests (or request steps) handled in one behaviour; also the last clock value
MaxRequests == 4
\* requests handled in one behaviour of SpecData
MaxDataRequests == 3
\* requests handled in one behaviour of SpecTags
MaxTagRequests == 2
\* length of the tags text of a request under SpecTags
MaxLen == 3
\* requests received in one behaviour of SpecConc
MaxConcRequests == 3

\* max_length of Resource.title and Resource.tags
TitleMaxLength == 200
TagsMaxLength == 255

(***************************************************************************)
(* Python string primitives used by the code.                              *)
(***************************************************************************)
\* the characters str.strip() removes: those for which str.isspace() holds
Whitespace ==
    {"\t", "\n", "U+000B", "\f", "\r", "U+001C", "U+001D", "U+001E", "U+001F", " ",
     "U+0085", "U+00A0", "U+1680",
     "U+2000", "U+2001", "U+2002", "U+2003", "U+2004", "U+2005", "U+2006", "U+2007",
     "U+2008", "U+2009", "U+200A", "U+2028", "U+2029", "U+202F", "U+205F", "U+3000"}

RECURSIVE lstrip(_)
lstrip(s) ==
    IF s = <<>> THEN s
    ELSE IF Head(s) \in Whitespace THEN lstrip(Tail(s)) ELSE s

RECURSIVE rstrip(_)
rstrip(s) ==
    IF s = <<>> THEN s
    ELSE IF s[Len(s)] \in Whitespace THEN rstrip(SubSeq(s, 1, Len(s) - 1)) ELSE s

\* str.strip()
strip(s) == rstrip(lstrip(s))

\* str.split(','): "" gives [""], "a,,b" gives ["a", "", "b"]
RECURSIVE split(_)
split(s) ==
    IF s = <<>> THEN << <<>> >>
    ELSE LET rest == split(Tail(s)) IN
         IF Head(s) = ","
         THEN << <<>> >> \o rest
         ELSE << <<Head(s)>> \o Head(rest) >> \o Tail(rest)

\* sep.join(list)
RECURSIVE join(_, _)
join(sep, list) ==
    IF list = <<>> THEN <<>>
    ELSE IF Len(list) = 1 THEN list[1]
    ELSE list[1] \o sep \o join(sep, Tail(list))

\* [tag.strip() for tag in tags.split(',')]
stripped_segments(text) ==
    LET segs == split(text) IN [i \in 1..Len(segs) |-> strip(segs[i])]

IsNonEmpty(t) == t # <<>>

\* a faulty variant of normalize_tags: the empty segments are kept
normalize_tags_no_filter(raw) == join(<<",">>, stripped_segments(raw))

\* tags_list = [tag.strip() for tag in validated_data['tags'].split(',') if tag.strip()]
\* validated_data['tags'] = ','.join(tags_list)
normalize_tags(raw) ==
    join(<<",">>, SelectSeq(stripped_segments(raw), IsNonEmpty))

\* Resource.get_tags_list
get_tags_list(tags) ==
    IF tags = <<>> THEN <<>> ELSE stripped_segments(tags)


(***************************************************************************)
(* Values.  None is Python's None where a text is expected; NullFile is    *)
(* the (falsy) FieldFile of a NULL file column, and the null sent for      *)
(* resource_file in a request.                                             *)
(***************************************************************************)
None == <<"None">>
NullFile == ""

WritableFields == {"title", "description", "tags", "resource_file"}

(***************************************************************************)
(* ResourceSerializer: field validation (ModelSerializer fields built from *)
(* models.Resource).  A request's data is a function from the names of the *)
(* fields it supplies to their values.                                     *)
(*   title        CharField(required, max_length=200), blank not allowed   *)
(*   description  CharField(required=False, allow_blank, allow_null)       *)
(*   tags         CharField(required=False, allow_blank, max_length=255)   *)
(*   resource_file FileField(required=False, allow_null)                   *)
(* A CharField trims whitespace before it validates.                       *)
(***************************************************************************)
title_error(data, partial) ==
    IF "title" \notin DOMAIN data THEN ~partial          \* required
    ELSE \/ data["title"] = None                         \* null
         \/ strip(data["title"]) = <<>>                  \* blank
         \/ Len(strip(data["title"])) > TitleMaxLength   \* max_length

tags_error(data) ==
    /\ "tags" \in DOMAIN data
    /\ \/ data["tags"] = None
       \/ Len(strip(data["tags"])) > TagsMaxLength

\* serializer.errors: the names of the fields that fail validation
errors(data, partial) ==
    {f \in {"title"} : title_error(data, partial)} \cup {f \in {"tags"} : tags_error(data)}

\* serializer.is_valid()
is_valid(data, partial) == errors(data, partial) = {}

\* serializer.validated_data: the supplied fields, converted; a field that is
\* not required and not supplied is skipped, full update or not
validated_data(data) ==
    [f \in DOMAIN data |->
        IF f = "resource_file" THEN data[f]
        ELSE IF data[f] = None THEN None
        ELSE strip(data[f])]

\* a faulty variant of clean_tags: the tags are written as supplied
clean_tags_skipped(vd) == vd

\* ResourceSerializer.create / update: the tags clean-up
clean_tags(vd) ==
    [f \in DOMAIN vd |-> IF f = "tags" THEN normalize_tags(vd[f]) ELSE vd[f]]

(***************************************************************************)
(* Media storage.                                                          *)
(***************************************************************************)
\* upload_to of Resource.resource_file; id_text is f'{instance.id}'
resource_file_path(id_text, filename) ==
    "resources/" \o id_text \o "/files/" \o filename

\* upload_to of ResourceImage.image; id_text is f'{instance.resource.id}'
resource_image_path(id_text, filename) ==
    "resources/" \o id_text \o "/images/" \o filename

\* the random strings Storage.get_alternative_name may append: one more than
\* the storage holds files, so that a name is free whatever names are taken
Suffixes == {"_r" \o ToString(i) : i \in 1..Cardinality(blobs) + 1}

\* Storage.get_available_name: the name itself when it is free, otherwise
\* the name with a random suffix that makes it free; names are drawn until
\* one is free, so a file is always stored
available_names(name) ==
    IF name \notin blobs THEN {name}
    ELSE {name \o s : s \in Suffixes} \ blobs

(***************************************************************************)
(* Model instances and their save().                                       *)
(***************************************************************************)
\* Resource(**validated_data) before it is saved: the model's field defaults
new_resource(vd) ==
    [title |-> vd["title"],
     description |-> IF "description" \in DOMAIN vd THEN vd["description"] ELSE None,
     tags |-> IF "tags" \in DOMAIN vd THEN vd["tags"] ELSE <<>>,
     resource_file |-> NullFile,
     created_at |-> 0, updated_at |-> 0]

\* ModelSerializer.update: setattr(instance, attr, value) for the validated fields;
\* an uploaded file is named by the storage when the instance is saved
set_attrs(instance, vd, stored_name) ==
    [f \in DOMAIN instance |->
        IF f = "resource_file" /\ f \in DOMAIN vd
        THEN (IF vd[f] = NullFile THEN NullFile ELSE stored_name)
        ELSE IF f \in DOMAIN vd THEN vd[f]
        ELSE instance[f]]

\* whether saving the instance writes an uploaded file to the storage
uploads_file(vd) == "resource_file" \in DOMAIN vd /\ vd["resource_file"] # NullFile

\* the names the storage may give the file uploaded with vd
upload_names(id_text, vd) ==
    IF uploads_file(vd)
    THEN available_names(resource_file_path(id_text, vd["resource_file"]))
    ELSE {NullFile}

\* auto_now_add / auto_now on an INSERT
stamp_insert(row) == [row EXCEPT !.created_at = now, !.updated_at = now]

\* a faulty variant of stamp_update: updated_at is not refreshed
stamp_update_frozen(row) == row

\* auto_now on an UPDATE
stamp_update(row) == [row EXCEPT !.updated_at = now]

\* the table with the row of key k added or replaced
put_row(table, k, row) ==
    [j \in DOMAIN table \cup {k} |-> IF j = k THEN row ELSE table[j]]

\* the table without the rows of the keys in ks
drop_rows(table, ks) == [j \in DOMAIN table \ ks |-> table[j]]


(***************************************************************************)
(* Queries and responses.                                                  *)
(***************************************************************************)
\* resource.images: the images whose foreign key is pk
images_of(pk) == {i \in DOMAIN images : images[i].resource = pk}

\* ResourceSerializer(...).data for a row of the table (the URL fields, which
\* only prefix the stored names, are left out)
serialize_resource(pk, row, image_ids) ==
    [id |-> pk,
     title |-> row.title,
     description |-> row.description,
     resource_file |-> row.resource_file,
     tags |-> row.tags,
     tags_list |-> get_tags_list(row.tags),
     images |-> image_ids,
     created_at |-> row.created_at,
     updated_at |-> row.updated_at]

\* ResourceImageSerializer(...).data
serialize_image(pk, row) ==
    [id |-> pk, resource |-> row.resource, image |-> row.image,
     caption |-> row.caption, uploaded_at |-> row.uploaded_at]

Response(op, pk, data, status, body) ==
    [op |-> op, pk |-> pk, data |-> data, status |-> status, body |-> body]

NoResponse == Response("none", 0, <<>>, 0, <<>>)

\* time passes with every step: no two saves read the same clock value
Tick == now' = now + 1

Init ==
    /\ resources = <<>>
    /\ images = <<>>
    /\ next_resource_id = 1
    /\ next_image_id = 1
    /\ blobs = {}
    /\ now = 1
    /\ in_flight = {}
    /\ resp = NoResponse
    /\ written_tags = <<>>
    /\ cascaded = {}
    /\ patched = {}
    /\ received = 0

(***************************************************************************)
(* The saves.                                                              *)
(***************************************************************************)
\* history: the tags text a write supplied (the default '' on a create without)
note_tags(pk, data, creating) ==
    IF "tags" \in DOMAIN data THEN put_row(written_tags, pk, data["tags"])
    ELSE IF creating \/ pk \notin DOMAIN written_tags THEN put_row(written_tags, pk, <<>>)
    ELSE written_tags

\* serializer.save() of a create: ResourceSerializer.create, then the INSERT.
\* The file is named by upload_to before the INSERT gives the instance its id.
save_create(op, data) ==
    \E vd \in {clean_tags(validated_data(data))} :
    \E name \in upload_names("None", vd) :
    \E row \in {stamp_insert([new_resource(vd) EXCEPT !.resource_file = name])} :
        /\ resources' = put_row(resources, next_resource_id, row)
        /\ next_resource_id' = next_resource_id + 1
        /\ blobs' = IF uploads_file(vd) THEN blobs \cup {name} ELSE blobs
        /\ written_tags' = note_tags(next_resource_id, data, TRUE)
        /\ resp' = Response(op, next_resource_id, data, 201,
                            serialize_resource(next_resource_id, row, {}))
        /\ UNCHANGED <<images, next_image_id, cascaded>>

\* serializer.save() of an update: ResourceSerializer.update, then
\* instance.save(), which writes every column of the loaded instance: an
\* UPDATE of the row, or an INSERT under the same id when the row is gone
save_update(op, pk, instance, data) ==
    \E vd \in {clean_tags(validated_data(data))} :
    \E name \in upload_names(ToString(pk), vd) :
    \E row \in {IF pk \in DOMAIN resources
                 THEN stamp_update(set_attrs(instance, vd, name))
                 ELSE stamp_insert(set_attrs(instance, vd, name))} :
        /\ resources' = put_row(resources, pk, row)
        /\ blobs' = IF uploads_file(vd) THEN blobs \cup {name} ELSE blobs
        /\ written_tags' = note_tags(pk, data, FALSE)
        /\ resp' = Response(op, pk, data, 200, serialize_resource(pk, row, images_of(pk)))
        /\ UNCHANGED <<images, next_resource_id, next_image_id, cascaded>>

\* a faulty variant of fk_holds: the constraint is not enforced
fk_unchecked(resource_id) == TRUE

\* the foreign key ResourceImage.resource, enforced by the database on INSERT
fk_holds(resource_id) == resource_id \in DOMAIN resources

\* image_instance.save(): the file is written to the storage, then the row is
\* inserted; an INSERT that breaks the foreign key raises IntegrityError (500)
save_image(op, resource_id, data) ==
    \E name \in available_names(resource_image_path(ToString(resource_id), data["image"])) :
        /\ blobs' = blobs \cup {name}
        /\ IF fk_holds(resource_id)
           THEN LET pk == next_image_id
                    row == [resource |-> resource_id,
                            image |-> name,
                            caption |-> IF "caption" \in DOMAIN data
                                        THEN data["caption"] ELSE <<>>,
                            uploaded_at |-> now]
                IN /\ images' = put_row(images, pk, row)
                   /\ next_image_id' = pk + 1
                   /\ resp' = Response(op, resource_id, data, 201, serialize_image(pk, row))
           ELSE /\ resp' = Response(op, resource_id, data, 500, {"IntegrityError"})
                /\ UNCHANGED <<images, next_image_id>>
        /\ UNCHANGED <<resources, next_resource_id, written_tags, cascaded>>

\* a response that leaves the database and the storage as they are
answer(op, pk, data, status, body) ==
    /\ resp' = Response(op, pk, data, status, body)
    /\ UNCHANGED <<resources, images, next_resource_id, next_image_id, blobs,
                   written_tags, cascaded>>


(***************************************************************************)
(* The HTTP handlers, one request handled at a time.                       *)
(***************************************************************************)
\* POST /resources/
ResourceListCreateView_post(data) ==
    /\ Tick
    /\ UNCHANGED <<in_flight, patched, received>>
    /\ IF is_valid(data, FALSE)
       THEN save_create("create", data)
       ELSE answer("create", 0, data, 400, errors(data, FALSE))

\* GET /resources/{pk}/
ResourceDetailView_get(pk) ==
    /\ Tick
    /\ UNCHANGED <<in_flight, patched, received>>
    /\ IF pk \in DOMAIN resources
       THEN answer("get", pk, <<>>, 200, serialize_resource(pk, resources[pk], images_of(pk)))
       ELSE answer("get", pk, <<>>, 404, {})

\* a faulty variant of update: an invalid update still saves the instance
update_saving_invalid(op, pk, data, partial) ==
    IF pk \notin DOMAIN resources THEN answer(op, pk, data, 404, {})
    ELSE IF ~is_valid(data, partial)
    THEN /\ resources' = put_row(resources, pk, stamp_update(resources[pk]))
         /\ resp' = Response(op, pk, data, 400, errors(data, partial))
         /\ UNCHANGED <<images, next_resource_id, next_image_id, blobs,
                        written_tags, cascaded>>
    ELSE save_update(op, pk, resources[pk], data)

\* PUT and PATCH /resources/{pk}/: get_object, is_valid, save
update(op, pk, data, partial) ==
    IF pk \notin DOMAIN resources THEN answer(op, pk, data, 404, {})
    ELSE IF ~is_valid(data, partial) THEN answer(op, pk, data, 400, errors(data, partial))
    ELSE save_update(op, pk, resources[pk], data)

ResourceDetailView_put(pk, data) ==
    /\ Tick
    /\ UNCHANGED <<in_flight, patched, received>>
    /\ update("put", pk, data, FALSE)

ResourceDetailView_patch(pk, data) ==
    /\ Tick
    /\ UNCHANGED <<in_flight, patched, received>>
    /\ update("patch", pk, data, TRUE)

\* a faulty variant of cascade: no image is collected
cascade_none(pk) == {}

\* resource.delete(): the collector deletes the rows of the images that
\* reference the resource (on_delete=CASCADE), then the resource's row, in
\* one transaction; it deletes no file
cascade(pk) == images_of(pk)

\* resource.delete() and the response: the rows that are there are deleted,
\* and a row that is already gone is no error
resource_delete(pk) ==
    /\ images' = drop_rows(images, cascade(pk))
    /\ resources' = drop_rows(resources, {pk})
    /\ written_tags' = drop_rows(written_tags, {pk})
    /\ cascaded' = cascaded \cup images_of(pk)
    /\ resp' = Response("delete", pk, <<>>, 204, {})
    /\ UNCHANGED <<next_resource_id, next_image_id, blobs>>

\* DELETE /resources/{pk}/
ResourceDetailView_delete(pk) ==
    /\ Tick
    /\ UNCHANGED <<in_flight, patched, received>>
    /\ IF pk \in DOMAIN resources
       THEN resource_delete(pk)
       ELSE answer("delete", pk, <<>>, 404, {})

\* a faulty variant of image_post: the payload is checked before the resource is looked up
image_post_checks_payload_first(resource_pk, data) ==
    IF "image" \notin DOMAIN data
    THEN answer("image_post", resource_pk, data, 400, {"image"})
    ELSE IF resource_pk \notin DOMAIN resources
    THEN answer("image_post", resource_pk, data, 404, {})
    ELSE save_image("image_post", resource_pk, data)

\* POST /resources/{resource_pk}/images/: the resource is looked up first,
\* then the payload is checked, then the image is saved
image_post(resource_pk, data) ==
    IF resource_pk \notin DOMAIN resources
    THEN answer("image_post", resource_pk, data, 404, {})
    ELSE IF "image" \notin DOMAIN data
    THEN answer("image_post", resource_pk, data, 400, {"image"})
    ELSE save_image("image_post", resource_pk, data)

ResourceImageUploadView_post(resource_pk, data) ==
    /\ Tick
    /\ UNCHANGED <<in_flight, patched, received>>
    /\ image_post(resource_pk, data)

\* image_instance.delete() and the response: the row is deleted if it is
\* there, and a row that is already gone is no error; the file is not deleted
image_delete(pk) ==
    /\ images' = drop_rows(images, {pk})
    /\ resp' = Response("image_delete", pk, <<>>, 204, {})
    /\ UNCHANGED <<resources, next_resource_id, next_image_id, blobs,
                   written_tags, cascaded>>

\* DELETE /images/{pk}/
ResourceImageDetailView_delete(pk) ==
    /\ Tick
    /\ UNCHANGED <<in_flight, patched, received>>
    /\ IF pk \in DOMAIN images
       THEN image_delete(pk)
       ELSE answer("image_delete", pk, <<>>, 404, {})

(***************************************************************************)
(* The requests of the clients.                                            *)
(***************************************************************************)
\* Optional(S): a field left out (<<>>) or supplied with a value of S (<<v>>)
Optional(S) == {<<>>} \cup {<<v>> : v \in S}

\* the request data that supplies the fields given, and only those
ResourceData(title, description, tags, resource_file) ==
    [f \in {g \in WritableFields :
              \/ g = "title" /\ title # <<>>
              \/ g = "description" /\ description # <<>>
              \/ g = "tags" /\ tags # <<>>
              \/ g = "resource_file" /\ resource_file # <<>>} |->
        CASE f = "title" -> title[1]
          [] f = "description" -> description[1]
          [] f = "tags" -> tags[1]
          [] f = "resource_file" -> resource_file[1]]

ImageData(image, caption) ==
    [f \in {g \in {"image", "caption"} :
              \/ g = "image" /\ image # <<>>
              \/ g = "caption" /\ caption # <<>>} |->
        CASE f = "image" -> image[1]
          [] f = "caption" -> caption[1]]

\* ids a client may ask for: those handed out so far and one never handed out
ResourceIds == 1..next_resource_id
ImageIds == 1..next_image_id

(***************************************************************************)
(* Spec: every handler, one request at a time, with few request payloads   *)
(* so that runs of MaxRequests requests can be explored.                    *)
(***************************************************************************)
FileNames == {"f"}
Captions == {<<"c">>}

Next ==
    \/ \E t \in Optional({<<"t">>, <<" ">>}), f \in Optional(FileNames) :
         /\ now <= MaxRequests
         /\ ResourceListCreateView_post(ResourceData(t, <<>>, <<>>, f))
    \/ \E pk \in ResourceIds :
         /\ now <= MaxRequests
         /\ ResourceDetailView_get(pk)
    \/ \E pk \in ResourceIds, t \in Optional({<<"t">>, <<" ">>}), f \in Optional(FileNames) :
         /\ now <= MaxRequests
         /\ ResourceDetailView_put(pk, ResourceData(t, <<>>, <<>>, f))
    \/ \E pk \in ResourceIds, t \in Optional({<<"u">>, <<" ">>}), f \in Optional({NullFile}) :
         /\ now <= MaxRequests
         /\ ResourceDetailView_patch(pk, ResourceData(t, <<>>, <<>>, f))
    \/ \E pk \in ResourceIds :
         /\ now <= MaxRequests
         /\ ResourceDetailView_delete(pk)
    \/ \E pk \in ResourceIds, i \in Optional(FileNames), c \in Optional(Captions) :
         /\ now <= MaxRequests
         /\ ResourceImageUploadView_post(pk, ImageData(i, c))
    \/ \E pk \in ImageIds :
         /\ now <= MaxRequests
         /\ ResourceImageDetailView_delete(pk)

Spec == Init /\ [][Next]_vars

(***************************************************************************)
(* Properties checked under Spec.                                          *)
(***************************************************************************)
\* the stored names that are referenced by a row of either table
referenced_blobs ==
    {resources[r].resource_file : r \in DOMAIN resources}
        \cup {images[i].image : i \in DOMAIN images}

\* a row of the table before the step whose row is the same after it
row_kept(before, after, k) == k \in DOMAIN after /\ after[k] = before[k]

\* C1: after a successful DELETE /resources/{r}/ no image with resource = r
\* remains, a later DELETE /images/{i}/ for an image r owned answers 404, and
\* the delete leaves the images of the other resources as they were.
C1_CascadeDelete ==
    /\ [](resp.op = "delete" /\ resp.status = 204 => images_of(resp.pk) = {})
    /\ [](resp.op = "image_delete" /\ resp.pk \in cascaded => resp.status = 404)
    /\ [][resp'.op = "delete" /\ resp'.status = 204 =>
            \A i \in DOMAIN images :
                images[i].resource # resp'.pk => row_kept(images, images', i)]_vars

\* C1 witness: an image that a deleted resource owned has been asked to be
\* deleted, and the answer was 404.
C1_Witness ==
    /\ resp.op = "image_delete"
    /\ resp.pk \in cascaded
    /\ resp.status = 404

\* C2: every blob the storage holds is referenced by an existing Resource or
\* ResourceImage row (deleting a record removes its blob).
C2_NoOrphanBlobs == blobs \subseteq referenced_blobs

\* the names the storage may give a file uploaded under the path given
stored_as(path) == {path} \cup {path \o s : s \in Suffixes}

\* C8: the blob key of a resource's file is resources/{id}/files/{filename}
\* and that of an image is resources/{id}/images/{filename}, {id} being the
\* id of the owning resource, for a file of the creating POST as for a later one.
C8_BlobKeysUnderOwnerId ==
    /\ \A r \in DOMAIN resources :
         resources[r].resource_file # NullFile =>
            \E n \in FileNames :
                resources[r].resource_file \in stored_as(resource_file_path(ToString(r), n))
    /\ \A i \in DOMAIN images :
         \E n \in FileNames :
            images[i].image \in stored_as(resource_image_path(ToString(images[i].resource), n))

\* C9: POST /resources/{id}/images/ answers 404 when the resource is absent,
\* image or no image; 400 keyed by image when the resource exists and the
\* payload has no image; neither creates a record.  Otherwise it answers 201
\* and adds exactly one image, owned by the resource, its caption '' by default.
C9_ImageUploadResponses ==
    [][resp'.op = "image_post" =>
        LET pk == resp'.pk
            data == resp'.data
        IN /\ pk \notin DOMAIN resources =>
                resp'.status = 404 /\ images' = images
           /\ pk \in DOMAIN resources /\ "image" \notin DOMAIN data =>
                resp'.status = 400 /\ resp'.body = {"image"} /\ images' = images
           /\ pk \in DOMAIN resources /\ "image" \in DOMAIN data =>
                /\ resp'.status = 201
                /\ \E i \in DOMAIN images' \ DOMAIN images :
                     /\ DOMAIN images' = DOMAIN images \cup {i}
                     /\ images'[i].resource = pk
                     /\ "caption" \notin DOMAIN data => images'[i].caption = <<>>
                     /\ "caption" \in DOMAIN data => images'[i].caption = data["caption"]
                /\ \A j \in DOMAIN images : row_kept(images, images', j)]_vars

\* C9 witness: an upload without image to a resource that does not exist was
\* answered 404 while images of another resource were stored.
C9_Witness ==
    /\ resp.op = "image_post"
    /\ resp.status = 404
    /\ "image" \notin DOMAIN resp.data
    /\ DOMAIN images # {}

\* C10: a request answered with an error (400, 404) leaves the Resource and
\* ResourceImage rows, updated_at included, exactly as they were.
C10_ErrorsChangeNothing ==
    [][resp'.status \in {400, 404} => resources' = resources /\ images' = images]_vars

\* C10 witness: a PATCH of an existing resource was answered 400.
C10_Witness ==
    /\ resp.op = "patch"
    /\ resp.status = 400
    /\ resp.pk \in DOMAIN resources


(***************************************************************************)
(* SpecData: creates, full and partial updates and uploads, one request at *)
(* a time, with payloads that supply every subset of the writable fields.  *)
(***************************************************************************)
NextData ==
    \/ \E d \in Optional({<<"d">>}), g \in Optional({<<"a", ",", " ", ",", "b">>}),
          f \in Optional(FileNames) :
         /\ now <= MaxDataRequests
         /\ ResourceListCreateView_post(ResourceData(<< <<"t">> >>, d, g, f))
    \/ \E pk \in ResourceIds, t \in Optional({<<"u">>}), d \in Optional({None}),
          g \in Optional({<<" ", "b">>}) :
         /\ now <= MaxDataRequests
         /\ ResourceDetailView_put(pk, ResourceData(t, d, g, <<>>))
    \/ \E pk \in ResourceIds, t \in Optional({<<"u">>}), d \in Optional({<<"e">>}),
          g \in Optional({<<" ", "b">>}), f \in Optional(FileNames \cup {NullFile}) :
         /\ now <= MaxDataRequests
         /\ ResourceDetailView_patch(pk, ResourceData(t, d, g, f))
    \/ \E pk \in ResourceIds, i \in Optional(FileNames) :
         /\ now <= MaxDataRequests
         /\ ResourceImageUploadView_post(pk, ImageData(i, <<>>))

SpecData == Init /\ [][NextData]_vars

\* C6: a PUT that succeeds clears the writable non-file fields it does not
\* supply (description to null, tags to ''), leaves an omitted resource_file as
\* it was, and a PUT without title is rejected with 400.
C6_PutReplacesAllFields ==
    /\ [](resp.op = "put" /\ resp.status = 200 =>
            /\ "description" \notin DOMAIN resp.data =>
                    resources[resp.pk].description = None
            /\ "tags" \notin DOMAIN resp.data => resources[resp.pk].tags = <<>>)
    /\ [](resp.op = "put" /\ "title" \notin DOMAIN resp.data => resp.status \in {400, 404})
    /\ [][resp'.op = "put" /\ resp'.status = 200
            /\ "resource_file" \notin DOMAIN resp'.data =>
                resources'[resp'.pk].resource_file = resources[resp'.pk].resource_file]_vars

\* the columns of a Resource row a PATCH of the fields given has no reason to touch
FrameFields(supplied) ==
    {"title", "description", "tags", "resource_file", "created_at"} \ supplied

\* C7: a successful PATCH that supplies exactly one writable field leaves the
\* other fields, created_at, the id and the owned images of the resource and
\* every other resource unchanged, and sets updated_at strictly later.
C7_PatchFrame ==
    [][resp'.op = "patch" /\ resp'.status = 200 /\ Cardinality(DOMAIN resp'.data) = 1 =>
        LET pk == resp'.pk IN
        /\ DOMAIN resources' = DOMAIN resources
        /\ \A f \in FrameFields(DOMAIN resp'.data) : resources'[pk][f] = resources[pk][f]
        /\ images' = images
        /\ \A r \in DOMAIN resources \ {pk} : resources'[r] = resources[r]
        /\ resources'[pk].updated_at > resources[pk].updated_at]_vars

\* C7 witness: a PATCH of the description alone was answered 200 for a
\* resource that has tags, a file and an image.
C7_Witness ==
    /\ resp.op = "patch"
    /\ resp.status = 200
    /\ DOMAIN resp.data = {"description"}
    /\ resources[resp.pk].tags # <<>>
    /\ resources[resp.pk].resource_file # NullFile
    /\ images_of(resp.pk) # {}


(***************************************************************************)
(* SpecTags: one resource is created and then updated or read, the tags    *)
(* text of each write being any text of at most MaxLen characters of       *)
(* TagAlphabet, or one of the longer texts of TagExamples.                 *)
(***************************************************************************)
TagAlphabet == {"a", "b", ",", " "}
TagExamples ==
    {<<"x", ",", " ", "y", " ", ",", " ", ",", "z">>,
     <<"a", ",", " ", ",", " ", "b", ",", " ", " ", "c", " ">>,
     <<"\t", "a", ",", "\n", ",", "b", "U+00A0">>,
     <<"U+3000", ",", "\r", "a", "\n">>}
TagInputs == UNION {[1..n -> TagAlphabet] : n \in 0..MaxLen} \cup TagExamples

NextTags ==
    \/ \E g \in Optional(TagInputs) :
         /\ now <= MaxTagRequests
         /\ next_resource_id = 1
         /\ ResourceListCreateView_post(ResourceData(<< <<"t">> >>, <<>>, g, <<>>))
    \/ \E pk \in DOMAIN resources, g \in Optional(TagInputs) :
         /\ now <= MaxTagRequests
         /\ ResourceDetailView_put(pk, ResourceData(<< <<"t">> >>, <<>>, g, <<>>))
    \/ \E pk \in DOMAIN resources, g \in Optional(TagInputs) :
         /\ now <= MaxTagRequests
         /\ ResourceDetailView_patch(pk, ResourceData(<<>>, <<>>, g, <<>>))
    \/ \E pk \in DOMAIN resources :
         /\ now <= MaxTagRequests
         /\ ResourceDetailView_get(pk)

SpecTags == Init /\ [][NextTags]_vars

(***************************************************************************)
(* The tag codec as the specification words it, computed by one scan of    *)
(* the text rather than with split and strip.                              *)
(***************************************************************************)
\* text without its leading and trailing blanks
Trimmed(text) ==
    LET solid == {i \in 1..Len(text) : text[i] \notin Whitespace} IN
    IF solid = {} THEN <<>>
    ELSE SubSeq(text, CHOOSE i \in solid : \A j \in solid : i <= j,
                      CHOOSE i \in solid : \A j \in solid : i >= j)

\* the list with the trimmed segment appended, unless it is empty
Flushed(list, segment) ==
    IF Trimmed(segment) = <<>> THEN list ELSE Append(list, Trimmed(segment))

RECURSIVE Scanned(_, _, _)
Scanned(text, segment, list) ==
    IF text = <<>> THEN Flushed(list, segment)
    ELSE IF Head(text) = "," THEN Scanned(Tail(text), <<>>, Flushed(list, segment))
    ELSE Scanned(Tail(text), Append(segment, Head(text)), list)

\* decode: split on comma, trim each segment, drop the empty ones, keep order
Decode(raw) == Scanned(raw, <<>>, <<>>)

RECURSIVE Joined(_, _)
Joined(list, sep) ==
    IF list = <<>> THEN <<>>
    ELSE IF Tail(list) = <<>> THEN Head(list)
    ELSE Head(list) \o sep \o Joined(Tail(list), sep)

\* a response that carries a serialized Resource
IsResourceBody == resp.op \in {"create", "put", "patch", "get"} /\ resp.status \in {200, 201}
\* a successful write that supplied a tags text
WroteTags ==
    /\ resp.op \in {"create", "put", "patch"}
    /\ resp.status \in {200, 201}
    /\ "tags" \in DOMAIN resp.data

\* what is stored and returned for the written tags text, with the separator given
TagsAre(sep) ==
    /\ WroteTags =>
         /\ resources[resp.pk].tags = Joined(Decode(resp.data["tags"]), sep)
         /\ resp.body.tags = Joined(Decode(resp.data["tags"]), sep)
    /\ resp.op = "get" /\ resp.status = 200 =>
         resp.body.tags = Joined(Decode(written_tags[resp.pk]), sep)

\* C4 as stated: the stored and returned tags are the decoded segments of the
\* written text joined with ", " (comma and space).
C4_TagsJoinedWithCommaSpace == TagsAre(<<",", " ">>)

\* C4 as amended: the stored and returned tags are the decoded segments of
\* the written text joined with "," (a comma, no space).
C4_TagsJoinedWithComma == TagsAre(<<",">>)

\* C4 witness: a GET returns "x,y,z" for a resource whose tags were written
\* as "x, y , ,z".
C4_Witness ==
    /\ resp.op = "get"
    /\ resp.status = 200
    /\ written_tags[resp.pk] = <<"x", ",", " ", "y", " ", ",", " ", ",", "z">>
    /\ resp.body.tags = <<"x", ",", "y", ",", "z">>

\* a tag that is neither empty nor padded with blanks
IsCleanTag(t) == t # <<>> /\ t[1] \notin Whitespace /\ t[Len(t)] \notin Whitespace

\* C5: the exposed tags_list of every resource is decode(raw) of the tags
\* text last written for it ([] when none was): it holds no empty or padded
\* string, and decoding the stored tags gives the same list.
C5_TagsListIsDecodedRaw ==
    /\ \A r \in DOMAIN resources :
         LET list == get_tags_list(resources[r].tags) IN
         /\ list = Decode(written_tags[r])
         /\ \A i \in 1..Len(list) : IsCleanTag(list[i])
         /\ Decode(resources[r].tags) = Decode(written_tags[r])
    /\ IsResourceBody => resp.body.tags_list = Decode(written_tags[resp.pk])

\* C5 witness: a PATCH wrote the tags text "a, , b,  c " and the response
\* lists a, b, c.
C5_Witness ==
    /\ resp.op = "patch"
    /\ resp.status = 200
    /\ written_tags[resp.pk] = <<"a", ",", " ", ",", " ", "b", ",", " ", " ", "c", " ">>
    /\ resp.body.tags_list = << <<"a">>, <<"b">>, <<"c">> >>


(***************************************************************************)
(* SpecConc: requests handled concurrently.  The server runs the handlers  *)
(* in autocommit mode, so a handler is a sequence of steps, one for each   *)
(* statement it sends to the database and each file it writes, and steps   *)
(* of other requests may come between them:                                *)
(*   POST /resources/        INSERT; the images read for the response      *)
(*   PUT, PATCH              get_object; UPDATE; INSERT when the UPDATE    *)
(*                           matched no row; the images read for the       *)
(*                           response                                      *)
(*   DELETE /resources/{pk}/ get_object; resource.delete(), one            *)
(*                           transaction for the image rows and the        *)
(*                           resource row                                  *)
(*   POST .../images/        get_object_or_404; the file written by the    *)
(*                           storage; INSERT                               *)
(*   DELETE /images/{pk}/    get_object; image_instance.delete()           *)
(* in_flight holds the requests between two of their steps.  The resource  *)
(* writes of SpecConc upload no file, so their save is the row write alone.*)
(***************************************************************************)
\* a request between two steps: instance is the object it loaded, row the
\* object as it last saved it, name the file it wrote
Request(op, pk, data, instance, stage) ==
    [op |-> op, pk |-> pk, data |-> data, instance |-> instance, row |-> <<>>,
     name |-> "", stage |-> stage, started |-> now]

\* the request goes on to its next step
proceed(request, stage, row, name) ==
    in_flight' = (in_flight \ {request}) \cup
                 {[request EXCEPT !.stage = stage, !.row = row, !.name = name]}

\* a request is received and handled up to its first statement
Receive ==
    /\ Tick
    /\ received' = received + 1
    /\ UNCHANGED patched

\* a request in flight takes a step that is not its last
Continue ==
    /\ Tick
    /\ UNCHANGED <<received, patched>>

\* ResourceListCreateView.post up to the INSERT of serializer.save()
post_insert(data) ==
    /\ Receive
    /\ IF ~is_valid(data, FALSE)
       THEN answer("create", 0, data, 400, errors(data, FALSE)) /\ UNCHANGED in_flight
       ELSE \E row \in {stamp_insert(new_resource(clean_tags(validated_data(data))))} :
            /\ resources' = put_row(resources, next_resource_id, row)
            /\ next_resource_id' = next_resource_id + 1
            /\ written_tags' = note_tags(next_resource_id, data, TRUE)
            /\ in_flight' = in_flight \cup
                    {[Request("create", next_resource_id, data, <<>>, "saved")
                         EXCEPT !.row = row]}
            /\ UNCHANGED <<images, next_image_id, blobs, resp, cascaded>>

\* Response(serializer.data) after a save: the instance as it was saved, with
\* the images read from the table now
respond(request) ==
    /\ Tick
    /\ request.stage = "saved"
    /\ in_flight' = in_flight \ {request}
    /\ patched' = IF request.op = "patch"
                  THEN patched \cup
                         {[pk |-> request.pk, data |-> request.data,
                           instance |-> request.instance,
                           started |-> request.started, answered |-> now]}
                  ELSE patched
    /\ answer(request.op, request.pk, request.data,
              IF request.op = "create" THEN 201 ELSE 200,
              serialize_resource(request.pk, request.row, images_of(request.pk)))
    /\ UNCHANGED received

\* ResourceDetailView.put / patch up to serializer.save(): the instance is loaded
update_begin(op, pk, data, partial) ==
    /\ Receive
    /\ IF pk \notin DOMAIN resources
       THEN answer(op, pk, data, 404, {}) /\ UNCHANGED in_flight
       ELSE IF ~is_valid(data, partial)
       THEN answer(op, pk, data, 400, errors(data, partial)) /\ UNCHANGED in_flight
       ELSE /\ in_flight' = in_flight \cup {Request(op, pk, data, resources[pk], "loaded")}
            /\ UNCHANGED <<resources, images, next_resource_id, next_image_id, blobs,
                           resp, written_tags, cascaded>>

put_begin(pk, data) == update_begin("put", pk, data, FALSE)

patch_begin(pk, data) == update_begin("patch", pk, data, TRUE)

\* serializer.save() of an update, up to the UPDATE of instance.save(): every
\* column of the loaded instance is written to the row of its id, if there is one
update_write(request) ==
    /\ Continue
    /\ request.op \in {"put", "patch"}
    /\ request.stage = "loaded"
    /\ \E row \in {stamp_update(set_attrs(request.instance,
                                          clean_tags(validated_data(request.data)),
                                          NullFile))} :
         IF request.pk \in DOMAIN resources
         THEN /\ resources' = put_row(resources, request.pk, row)
              /\ written_tags' = note_tags(request.pk, request.data, FALSE)
              /\ proceed(request, "saved", row, "")
              /\ UNCHANGED <<images, next_resource_id, next_image_id, blobs, resp, cascaded>>
         ELSE /\ proceed(request, "missed", row, "")
              /\ UNCHANGED <<resources, images, next_resource_id, next_image_id, blobs,
                             resp, written_tags, cascaded>>

\* instance.save() after an UPDATE that matched no row: the instance is
\* inserted under its id; when a row of that id is there again the INSERT
\* raises IntegrityError (500)
update_insert(request) ==
    /\ Tick
    /\ request.stage = "missed"
    /\ UNCHANGED <<received, patched>>
    /\ IF request.pk \in DOMAIN resources
       THEN /\ in_flight' = in_flight \ {request}
            /\ answer(request.op, request.pk, request.data, 500, {"IntegrityError"})
       ELSE \E row \in {stamp_insert(request.row)} :
            /\ resources' = put_row(resources, request.pk, row)
            /\ written_tags' = note_tags(request.pk, request.data, FALSE)
            /\ proceed(request, "saved", row, "")
            /\ UNCHANGED <<images, next_resource_id, next_image_id, blobs, resp, cascaded>>

\* ResourceDetailView.delete up to resource.delete(): the instance is loaded
delete_begin(pk) ==
    /\ Receive
    /\ IF pk \notin DOMAIN resources
       THEN answer("delete", pk, <<>>, 404, {}) /\ UNCHANGED in_flight
       ELSE /\ in_flight' = in_flight \cup {Request("delete", pk, <<>>, <<>>, "loaded")}
            /\ UNCHANGED <<resources, images, next_resource_id, next_image_id, blobs,
                           resp, written_tags, cascaded>>

\* resource.delete() on the loaded instance, and the response
delete_finish(request) ==
    /\ Tick
    /\ request.op = "delete"
    /\ in_flight' = in_flight \ {request}
    /\ UNCHANGED <<received, patched>>
    /\ resource_delete(request.pk)

\* ResourceImageUploadView.post up to image_instance.save()
image_post_begin(resource_pk, data) ==
    /\ Receive
    /\ IF resource_pk \notin DOMAIN resources
       THEN answer("image_post", resource_pk, data, 404, {}) /\ UNCHANGED in_flight
       ELSE IF "image" \notin DOMAIN data
       THEN answer("image_post", resource_pk, data, 400, {"image"}) /\ UNCHANGED in_flight
       ELSE /\ in_flight' = in_flight \cup
                    {Request("image_post", resource_pk, data, <<>>, "loaded")}
            /\ UNCHANGED <<resources, images, next_resource_id, next_image_id, blobs,
                           resp, written_tags, cascaded>>

\* image_instance.save() up to the INSERT: the storage names and writes the file
image_post_write(request) ==
    /\ Continue
    /\ request.op = "image_post"
    /\ request.stage = "loaded"
    /\ \E name \in available_names(resource_image_path(ToString(request.pk),
                                                       request.data["image"])) :
         /\ blobs' = blobs \cup {name}
         /\ proceed(request, "filed", <<>>, name)
    /\ UNCHANGED <<resources, images, next_resource_id, next_image_id, resp,
                   written_tags, cascaded>>

\* the INSERT of image_instance.save() and the response; an INSERT that
\* breaks the foreign key raises IntegrityError (500)
image_post_insert(request) ==
    /\ Tick
    /\ request.stage = "filed"
    /\ in_flight' = in_flight \ {request}
    /\ UNCHANGED <<received, patched>>
    /\ IF fk_holds(request.pk)
       THEN LET pk == next_image_id
                row == [resource |-> request.pk,
                        image |-> request.name,
                        caption |-> IF "caption" \in DOMAIN request.data
                                    THEN request.data["caption"] ELSE <<>>,
                        uploaded_at |-> now]
            IN /\ images' = put_row(images, pk, row)
               /\ next_image_id' = pk + 1
               /\ resp' = Response("image_post", request.pk, request.data, 201,
                                   serialize_image(pk, row))
               /\ UNCHANGED <<resources, next_resource_id, blobs, written_tags, cascaded>>
       ELSE answer("image_post", request.pk, request.data, 500, {"IntegrityError"})

\* ResourceImageDetailView.delete up to image_instance.delete()
image_delete_begin(pk) ==
    /\ Receive
    /\ IF pk \notin DOMAIN images
       THEN answer("image_delete", pk, <<>>, 404, {}) /\ UNCHANGED in_flight
       ELSE /\ in_flight' = in_flight \cup {Request("image_delete", pk, <<>>, <<>>, "loaded")}
            /\ UNCHANGED <<resources, images, next_resource_id, next_image_id, blobs,
                           resp, written_tags, cascaded>>

\* image_instance.delete() on the loaded instance, and the response
image_delete_finish(request) ==
    /\ Tick
    /\ request.op = "image_delete"
    /\ in_flight' = in_flight \ {request}
    /\ UNCHANGED <<received, patched>>
    /\ image_delete(request.pk)

\* the ids a request of SpecConc may name: those given out so far
KnownResourceIds == 1..(next_resource_id - 1)
KnownImageIds == 1..(next_image_id - 1)

\* the PATCH requests of SpecConc: one supplies the title only, the other
\* the description only
PatchInputs ==
    {ResourceData(<< <<"u">> >>, <<>>, <<>>, <<>>),
     ResourceData(<<>>, << <<"d">> >>, <<>>, <<>>)}

\* the state in which POST /resources/ {title: "t"} leaves the empty database
OneResource ==
    LET data == ResourceData(<< <<"t">> >>, <<>>, <<>>, <<>>)
        row == [new_resource(clean_tags(validated_data(data)))
                    EXCEPT !.created_at = 1, !.updated_at = 1]
    IN /\ resources = put_row(<<>>, 1, row)
       /\ images = <<>>
       /\ next_resource_id = 2
       /\ next_image_id = 1
       /\ blobs = {}
       /\ now = 2
       /\ in_flight = {}
       /\ resp = Response("create", 1, data, 201, serialize_resource(1, row, {}))
       /\ written_tags = put_row(<<>>, 1, <<>>)
       /\ cascaded = {}
       /\ patched = {}
       /\ received = 0

\* the state in which POST /resources/1/images/ {image: f} then leaves it
OneImage ==
    LET data == ResourceData(<< <<"t">> >>, <<>>, <<>>, <<>>)
        row == [new_resource(clean_tags(validated_data(data)))
                    EXCEPT !.created_at = 1, !.updated_at = 1]
        upload == ImageData(<<"f">>, <<>>)
        name == resource_image_path("1", "f")
        image == [resource |-> 1, image |-> name, caption |-> <<>>, uploaded_at |-> 2]
    IN /\ resources = put_row(<<>>, 1, row)
       /\ images = put_row(<<>>, 1, image)
       /\ next_resource_id = 2
       /\ next_image_id = 2
       /\ blobs = {name}
       /\ now = 3
       /\ in_flight = {}
       /\ resp = Response("image_post", 1, upload, 201, serialize_image(1, image))
       /\ written_tags = put_row(<<>>, 1, <<>>)
       /\ cascaded = {}
       /\ patched = {}
       /\ received = 0

\* SpecConc starts from the empty database, or from a database that one or
\* two requests handled alone have filled
InitConc == Init \/ OneResource \/ OneImage

NextConc ==
    \/ /\ received < MaxConcRequests
       /\ post_insert(ResourceData(<< <<"t">> >>, <<>>, <<>>, <<>>))
    \/ \E request \in in_flight : respond(request)
    \/ \E pk \in KnownResourceIds :
         /\ received < MaxConcRequests
         /\ put_begin(pk, ResourceData(<< <<"v">> >>, <<>>, <<>>, <<>>))
    \/ \E pk \in KnownResourceIds, data \in PatchInputs :
         /\ received < MaxConcRequests
         /\ patch_begin(pk, data)
    \/ \E request \in in_flight : update_write(request)
    \/ \E request \in in_flight : update_insert(request)
    \/ \E pk \in KnownResourceIds :
         /\ received < MaxConcRequests
         /\ delete_begin(pk)
    \/ \E request \in in_flight : delete_finish(request)
    \/ \E pk \in KnownResourceIds, i \in FileNames :
         /\ received < MaxConcRequests
         /\ image_post_begin(pk, ImageData(<<i>>, <<>>))
    \/ \E request \in in_flight : image_post_write(request)
    \/ \E request \in in_flight : image_post_insert(request)
    \/ \E pk \in KnownImageIds :
         /\ received < MaxConcRequests
         /\ image_delete_begin(pk)
    \/ \E request \in in_flight : image_delete_finish(request)

SpecConc == InitConc /\ [][NextConc]_vars

\* C3: under every interleaving of the steps of uploads, image deletes and
\* resource creates, updates and deletes, every stored image references a
\* resource that exists, and the resource an image references never changes.
C3_ImagesHaveOwner ==
    /\ [](\A i \in DOMAIN images : images[i].resource \in DOMAIN resources)
    /\ [][\A i \in DOMAIN images \cap DOMAIN images' :
            images'[i].resource = images[i].resource]_vars

\* C3 witness: an upload looked its resource up, the resource was deleted,
\* and the save of the upload was refused by the database (500).
C3_Witness ==
    /\ resp.op = "image_post"
    /\ resp.status = 500
    /\ resp.pk \notin DOMAIN resources

\* Two PATCH requests ran concurrently: each loaded its instance before the
\* other answered.
Concurrent(a, b) == a.started < b.answered /\ b.started < a.answered

\* The value the record holds for a field once a PATCH that supplied it is saved.
Supplied(request, f) == clean_tags(validated_data(request.data))[f]

\* C11: when two PATCH requests on the same resource supply disjoint fields
\* and run concurrently, then under every interleaving of their load steps
\* and their write steps, once both have answered 200 the stored record holds
\* both new values: no PATCH writes back a stale value of a field it did not
\* supply.
C11_DisjointPatchesBothKept ==
    \A a \in patched, b \in patched :
        /\ a.pk = b.pk
        /\ a.pk \in DOMAIN resources
        /\ DOMAIN a.data # {}
        /\ DOMAIN b.data # {}
        /\ DOMAIN a.data \cap DOMAIN b.data = {}
        /\ Concurrent(a, b)
        /\ {p \in patched : p.pk = a.pk} = {a, b}
        /\ a.instance.created_at = resources[a.pk].created_at
        /\ now = (IF a.answered > b.answered THEN a.answered ELSE b.answered) + 1
        => /\ \A f \in DOMAIN a.data \ {"resource_file"} :
                resources[a.pk][f] = Supplied(a, f)
           /\ \A f \in DOMAIN b.data \ {"resource_file"} :
                resources[b.pk][f] = Supplied(b, f)

====
